---- MODULE Spec2Model ----
(***************************************************************************)
(* Model of the Wavefront OBJ reader of flywave/go-obj (package obj):      *)
(* ObjReader.Read and its line handlers (src/reader.go), operating on the  *)
(* ObjBuffer embedded in the reader (src/unnamed/part_003).                *)
(*                                                                         *)
(* Text is modelled by its structure.  A line is a record                  *)
(*   [kw, upper, fields]                                                   *)
(* kw is the lower-cased first field, upper tells whether the keyword was  *)
(* written in upper case, fields are the fields after the keyword.  A      *)
(* field is the sequence of its '/'-separated parts; a part is an integer  *)
(* literal (k = "int", its value n), the empty string (k = "empty") or any *)
(* other text (k = "word", the text s).                                    *)
(*                                                                         *)
(* The operations on a buffer that Read has filled are modelled on the     *)
(* same state: Group.buildBuffers (src/group.go) with its result in sub,   *)
(* face.Triangulate (src/unnamed/part_003) with its result in tris, and    *)
(* ObjBuffer.Write (src/reader_test.go) with its output in out, which a    *)
(* fresh reader then reads while written keeps the buffer that was         *)
(* written.  ear holds the locals of a Triangulate call that is followed   *)
(* pass by pass through its ear loop.                                      *)
(***************************************************************************)
EXTENDS Integers, Sequences, FiniteSets, TLC

VARIABLES V, VN, VT, F, L, G, FaceGroup, MTL, activeMaterial, options,
          pc, i, err, last, sub, tris, out, written, ear

vars == <<V, VN, VT, F, L, G, FaceGroup, MTL, activeMaterial, options,
          pc, i, err, last, sub, tris, out, written, ear>>

results == <<sub, tris, out, written, ear>>

buffer == <<V, VN, VT, F, L, G, FaceGroup, MTL, activeMaterial>>

(***************************************************************************)
(* Bounds of the model.                                                    *)
(***************************************************************************)
MaxV == 3
MaxVN == 1
MaxVT == 1
MaxCorners == 4
MaxLines == 5

Absent == -1

NoError == "nil"

(***************************************************************************)
(* Text parts and fields.                                                  *)
(***************************************************************************)
IntPart(n) == [k |-> "int", n |-> n, s |-> ""]
EmptyPart == [k |-> "empty", n |-> 0, s |-> ""]
WordPart(s) == [k |-> "word", n |-> 0, s |-> s]
AlphaPart == WordPart("a")

IsInt(p) == p.k = "int"

FaceCorner(v, n, t) == [VertexIndex |-> v, NormalIndex |-> n, TexCoordIndex |-> t]

Face(corners, material) == [Corners |-> corners, Material |-> material]

Group(name, first, count) == [Name |-> name, FirstFaceIndex |-> first, FaceCount |-> count]

FirstError(errs) ==
    IF \E j \in 1..Len(errs) : errs[j] # NoError
    THEN errs[CHOOSE j \in 1..Len(errs) :
                  /\ errs[j] # NoError
                  /\ \A h \in 1..(j - 1) : errs[h] = NoError]
    ELSE NoError

(***************************************************************************)
(* parseFaceField: the four regular expressions, tried in the order of the *)
(* source: INT, INT/INT, INT/INT/INT, INT//INT.  The corner literal is     *)
(* FaceCorner{VertexIndex, NormalIndex, TexCoordIndex}; the values are the *)
(* raw token values and a slot the token does not have is -1.              *)
(***************************************************************************)
parseFaceFieldSwapped(field) ==
    IF Len(field) = 1 /\ IsInt(field[1])
    THEN [err |-> NoError, corner |-> FaceCorner(field[1].n, -1, -1)]
    ELSE IF Len(field) = 2 /\ IsInt(field[1]) /\ IsInt(field[2])
    THEN [err |-> NoError, corner |-> FaceCorner(field[1].n, -1, field[2].n)]
    ELSE IF Len(field) = 3 /\ IsInt(field[1]) /\ IsInt(field[2]) /\ IsInt(field[3])
    THEN [err |-> NoError, corner |-> FaceCorner(field[1].n, field[2].n, field[3].n)]
    ELSE IF Len(field) = 3 /\ IsInt(field[1]) /\ field[2].k = "empty" /\ IsInt(field[3])
    THEN [err |-> NoError, corner |-> FaceCorner(field[1].n, field[3].n, -1)]
    ELSE [err |-> "face field is not on a supported format",
          corner |-> FaceCorner(-1, -1, -1)]

parseFaceField(field) ==
    IF Len(field) = 1 /\ IsInt(field[1])
    THEN [err |-> NoError, corner |-> FaceCorner(field[1].n, -1, -1)]
    ELSE IF Len(field) = 2 /\ IsInt(field[1]) /\ IsInt(field[2])
    THEN [err |-> NoError, corner |-> FaceCorner(field[1].n, -1, field[2].n)]
    ELSE IF Len(field) = 3 /\ IsInt(field[1]) /\ IsInt(field[2]) /\ IsInt(field[3])
    THEN [err |-> NoError, corner |-> FaceCorner(field[1].n, field[3].n, field[2].n)]
    ELSE IF Len(field) = 3 /\ IsInt(field[1]) /\ field[2].k = "empty" /\ IsInt(field[3])
    THEN [err |-> NoError, corner |-> FaceCorner(field[1].n, field[3].n, -1)]
    ELSE [err |-> "face field is not on a supported format",
          corner |-> FaceCorner(-1, -1, -1)]

(***************************************************************************)
(* The body of processFace's loop after parseFaceField, for one corner:    *)
(* vertex, normal and texcoord resolution, then the range validation.      *)
(***************************************************************************)
resolveVertexIndexFromEnd(v, nV) ==
    IF v < 0
    THEN [err |-> NoError, idx |-> IF nV > 0 THEN nV + v + 1 ELSE v]
    ELSE IF v > 0
    THEN [err |-> NoError, idx |-> v - 1]
    ELSE [err |-> "vertex index 0 is invalid", idx |-> v]

resolveVertexIndex(v, nV) ==
    IF v < 0
    THEN [err |-> NoError, idx |-> IF nV > 0 THEN nV + v ELSE v]
    ELSE IF v > 0
    THEN [err |-> NoError, idx |-> v - 1]
    ELSE [err |-> "vertex index 0 is invalid", idx |-> v]

resolveNormalIndexZeroAbsent(n, nVN) ==
    IF n < -1
    THEN [err |-> NoError, idx |-> IF nVN > 0 THEN nVN + n ELSE n]
    ELSE IF n > 0
    THEN [err |-> NoError, idx |-> n - 1]
    ELSE [err |-> NoError, idx |-> -1]

resolveNormalIndex(n, nVN) ==
    IF n < -1
    THEN [err |-> NoError, idx |-> IF nVN > 0 THEN nVN + n ELSE n]
    ELSE IF n > 0
    THEN [err |-> NoError, idx |-> n - 1]
    ELSE IF n = 0
    THEN [err |-> "normal index 0 is invalid", idx |-> n]
    ELSE [err |-> NoError, idx |-> n]

resolveTexCoordIndex(t, nVT) ==
    IF t < -1
    THEN [err |-> NoError, idx |-> IF nVT > 0 THEN nVT + t ELSE t]
    ELSE IF t > 0
    THEN [err |-> NoError, idx |-> t - 1]
    ELSE IF t = 0
    THEN [err |-> "texture coordinate index 0 is invalid", idx |-> t]
    ELSE [err |-> NoError, idx |-> t]

validateVertexIndex(idx, nV) ==
    IF nV > 0 /\ (idx < 0 \/ idx >= nV)
    THEN "vertex index out of range" ELSE NoError

validateNormalIndex(idx, nVN) ==
    IF nVN > 0 /\ idx >= 0 /\ idx >= nVN
    THEN "normal index out of range" ELSE NoError

validateTexCoordIndex(idx, nVT) ==
    IF nVT > 0 /\ idx >= 0 /\ idx >= nVT
    THEN "texture coordinate index out of range" ELSE NoError

resolveCorner(field, nV, nVN, nVT) ==
    LET p == parseFaceField(field)
        rv == resolveVertexIndex(p.corner.VertexIndex, nV)
        rn == resolveNormalIndex(p.corner.NormalIndex, nVN)
        rt == resolveTexCoordIndex(p.corner.TexCoordIndex, nVT)
        corner == FaceCorner(rv.idx, rn.idx, rt.idx)
    IN IF p.err # NoError THEN [err |-> p.err, corner |-> p.corner]
       ELSE IF rv.err # NoError THEN [err |-> rv.err, corner |-> corner]
       ELSE IF rn.err # NoError THEN [err |-> rn.err, corner |-> corner]
       ELSE IF rt.err # NoError THEN [err |-> rt.err, corner |-> corner]
       ELSE IF validateVertexIndex(rv.idx, nV) # NoError
       THEN [err |-> validateVertexIndex(rv.idx, nV), corner |-> corner]
       ELSE IF validateNormalIndex(rn.idx, nVN) # NoError
       THEN [err |-> validateNormalIndex(rn.idx, nVN), corner |-> corner]
       ELSE IF validateTexCoordIndex(rt.idx, nVT) # NoError
       THEN [err |-> validateTexCoordIndex(rt.idx, nVT), corner |-> corner]
       ELSE [err |-> NoError, corner |-> corner]

(***************************************************************************)
(* isFaceAccepted: with DiscardDegeneratedFaces a face in which a vertex   *)
(* index occurs twice is not accepted.                                     *)
(***************************************************************************)
isFaceAcceptedAll(corners, opts) == TRUE

isFaceAccepted(corners, opts) ==
    IF opts.DiscardDegeneratedFaces
    THEN \A a, b \in 1..Len(corners) :
            a # b => corners[a].VertexIndex # corners[b].VertexIndex
    ELSE TRUE

(***************************************************************************)
(* processFace: the result of the handler on the fields of an f line:      *)
(* the error it returns and the value of l.F afterwards.                   *)
(***************************************************************************)
RECURSIVE resolveCorners(_, _, _, _, _)
resolveCorners(fields, nV, nVN, nVT, done) ==
    IF Len(done) = Len(fields)
    THEN [err |-> NoError, Corners |-> done]
    ELSE LET r == resolveCorner(fields[Len(done) + 1], nV, nVN, nVT)
         IN IF r.err # NoError
            THEN [err |-> r.err, Corners |-> done]
            ELSE resolveCorners(fields, nV, nVN, nVT, Append(done, r.corner))

processFaceTwoCorners(fields, faces, nV, nVN, nVT, material, opts) ==
    IF Len(fields) < 2
    THEN [err |-> "expected 3 fields", F |-> faces]
    ELSE LET r == resolveCorners(fields, nV, nVN, nVT, <<>>)
         IN IF r.err # NoError
            THEN [err |-> r.err, F |-> faces]
            ELSE [err |-> NoError,
                  F |-> IF isFaceAccepted(r.Corners, opts)
                        THEN Append(faces, Face(r.Corners, material))
                        ELSE faces]

processFace(fields, faces, nV, nVN, nVT, material, opts) ==
    IF Len(fields) < 3
    THEN [err |-> "expected 3 fields", F |-> faces]
    ELSE LET r == resolveCorners(fields, nV, nVN, nVT, <<>>)
         IN IF r.err # NoError
            THEN [err |-> r.err, F |-> faces]
            ELSE [err |-> NoError,
                  F |-> IF isFaceAccepted(r.Corners, opts)
                        THEN Append(faces, Face(r.Corners, material))
                        ELSE faces]

(***************************************************************************)
(* The text captured by the group of the g, usemtl and mtllib patterns:    *)
(* the rest of the line after the keyword and the white space after it.    *)
(***************************************************************************)
PartText(p) == IF IsInt(p) THEN ToString(p.n) ELSE p.s

RECURSIVE FieldText(_)
FieldText(field) ==
    IF Len(field) = 0 THEN ""
    ELSE IF Len(field) = 1 THEN PartText(field[1])
    ELSE PartText(field[1]) \o "/" \o FieldText(Tail(field))

RECURSIVE JoinFields(_)
JoinFields(fields) ==
    IF Len(fields) = 0 THEN ""
    ELSE IF Len(fields) = 1 THEN FieldText(fields[1])
    ELSE FieldText(fields[1]) \o " " \o JoinFields(Tail(fields))

(***************************************************************************)
(* startGroup and endGroup, as functions of l.G and len(l.F).              *)
(***************************************************************************)
startGroup(g, name, nF) == Append(g, Group(name, nF, -1))

endGroupNoDefault(g, nF) ==
    IF Len(g) > 0
    THEN LET idx == Len(g)
             count == nF - g[idx].FirstFaceIndex
         IN IF count > 0
            THEN [g EXCEPT ![idx].FaceCount = count]
            ELSE SubSeq(g, 1, Len(g) - 1)
    ELSE g

endGroupCountAll(g, nF) ==
    IF Len(g) > 0
    THEN LET idx == Len(g)
             count == nF
         IN IF count > 0
            THEN [g EXCEPT ![idx].FaceCount = count]
            ELSE SubSeq(g, 1, Len(g) - 1)
    ELSE Append(g, Group("default group", 0, nF))

endGroupDefaultEmpty(g, nF) ==
    IF Len(g) > 0
    THEN LET idx == Len(g)
             count == nF - g[idx].FirstFaceIndex
         IN IF count > 0
            THEN [g EXCEPT ![idx].FaceCount = count]
            ELSE SubSeq(g, 1, Len(g) - 1)
    ELSE Append(g, Group("default group", 0, 0))

endGroup(g, nF) ==
    IF Len(g) > 0
    THEN LET idx == Len(g)
             count == nF - g[idx].FirstFaceIndex
         IN IF count > 0
            THEN [g EXCEPT ![idx].FaceCount = count]
            ELSE SubSeq(g, 1, Len(g) - 1)
    ELSE Append(g, Group("default group", 0, nF))

(***************************************************************************)
(* processGroup: groupRegex (a lower-case g, white space, the name) is     *)
(* matched against the line as written, so it matches only when the        *)
(* keyword is the lower-case g.                                            *)
(***************************************************************************)
processGroup(line, g, nF) ==
    IF ~line.upper
    THEN [err |-> NoError, G |-> startGroup(endGroup(g, nF), JoinFields(line.fields), nF)]
    ELSE [err |-> "could not parse group", G |-> g]

(***************************************************************************)
(* processMaterialLibrary: mtllibRegex needs white space after the         *)
(* lower-case keyword, which a trimmed line has only when a field follows. *)
(***************************************************************************)
processMaterialLibraryOverwrite(line, mtl) ==
    IF ~line.upper /\ Len(line.fields) > 0
    THEN [err |-> NoError, MTL |-> JoinFields(line.fields)]
    ELSE [err |-> "could not parse 'mtllib'-line", MTL |-> mtl]

processMaterialLibrary(line, mtl) ==
    IF mtl # ""
    THEN [err |-> "material library already set", MTL |-> mtl]
    ELSE IF ~line.upper /\ Len(line.fields) > 0
    THEN [err |-> NoError, MTL |-> JoinFields(line.fields)]
    ELSE [err |-> "could not parse 'mtllib'-line", MTL |-> mtl]

processUseMaterialKeep(line, material) ==
    IF ~line.upper /\ Len(line.fields) > 0
    THEN [err |-> NoError, activeMaterial |-> material]
    ELSE [err |-> "could not parse 'usemtl'-line", activeMaterial |-> material]

processUseMaterial(line, material) ==
    IF ~line.upper /\ Len(line.fields) > 0
    THEN [err |-> NoError, activeMaterial |-> JoinFields(line.fields)]
    ELSE [err |-> "could not parse 'usemtl'-line", activeMaterial |-> material]

(***************************************************************************)
(* The usemtl case of Read's switch closes the last FaceGroup at len(l.F)  *)
(* and opens a new one there, before processUseMaterial is called.         *)
(***************************************************************************)
FaceGroupRec(offset, size) == [Offset |-> offset, Size |-> size]

switchFaceGroup(fg, fsz) ==
    LET closed == IF Len(fg) > 0
                  THEN [fg EXCEPT ![Len(fg)].Size = fsz - fg[Len(fg)].Offset]
                  ELSE fg
    IN Append(closed, FaceGroupRec(fsz, 0))

finishFaceGroup(fg, nF) ==
    IF Len(fg) > 0
    THEN [fg EXCEPT ![Len(fg)].Size = nF - fg[Len(fg)].Offset]
    ELSE Append(fg, FaceGroupRec(0, nF))

(***************************************************************************)
(* processVertex, processVertexNormal, processVertexTexCoord, processLine. *)
(* A number is modelled by an integer; strconv.ParseFloat and strconv.Atoi *)
(* fail on a part that is not numeric.                                     *)
(***************************************************************************)
parseNumber(field) ==
    IF Len(field) = 1 /\ IsInt(field[1]) THEN NoError ELSE "invalid syntax"

numberOf(field) == field[1].n

processVertex(fields, v) ==
    IF Len(fields) # 3 /\ Len(fields) # 4
    THEN [err |-> "expected 3 or 4 fields", V |-> v]
    ELSE LET e == FirstError(<<parseNumber(fields[1]), parseNumber(fields[2]),
                               parseNumber(fields[3])>>)
         IN IF e # NoError
            THEN [err |-> e, V |-> v]
            ELSE [err |-> NoError, V |-> Append(v, <<numberOf(fields[1]), numberOf(fields[2]),
                                               numberOf(fields[3])>>)]

processVertexNormal(fields, vn) ==
    IF Len(fields) # 3
    THEN [err |-> "expected 3 fields", VN |-> vn]
    ELSE LET e == FirstError(<<parseNumber(fields[1]), parseNumber(fields[2]),
                               parseNumber(fields[3])>>)
         IN IF e # NoError
            THEN [err |-> e, VN |-> vn]
            ELSE [err |-> NoError, VN |-> Append(vn, <<numberOf(fields[1]), numberOf(fields[2]),
                                                 numberOf(fields[3])>>)]

processVertexTexCoord(fields, vt) ==
    IF Len(fields) # 2
    THEN [err |-> "expected 2 fields", VT |-> vt]
    ELSE LET e == FirstError(<<parseNumber(fields[1]), parseNumber(fields[2])>>)
         IN IF e # NoError
            THEN [err |-> e, VT |-> vt]
            ELSE [err |-> NoError, VT |-> Append(vt, <<numberOf(fields[1]), numberOf(fields[2])>>)]

processLine(fields, lines, material) ==
    IF Len(fields) < 2
    THEN [err |-> "expected 2 fields", L |-> lines]
    ELSE LET e == FirstError([j \in 1..Len(fields) |-> parseNumber(fields[j])])
         IN IF e # NoError
            THEN [err |-> e, L |-> lines]
            ELSE [err |-> NoError,
                  L |-> Append(lines, [Corners |-> [j \in 1..Len(fields) |-> numberOf(fields[j]) - 1],
                                       Material |-> material])]

(***************************************************************************)
(* The state of the reader: the embedded ObjBuffer, the options, and the   *)
(* position of Read: pc is "new" before the first line, "reading" inside   *)
(* the scan loop, "failed" after a lineError was returned and "done" after *)
(* Read returned scanner.Err().  i is Read's line counter, err the value   *)
(* Read returned, last the line the loop processed last.                   *)
(***************************************************************************)
NoLine == [kw |-> "", upper |-> FALSE, fields |-> <<>>]

NoLineError == [lineNumber |-> 0, line |-> NoLine, err |-> NoError]

lineErrorZeroBased(n, line, e) == [lineNumber |-> n - 1, line |-> line, err |-> e]

lineError(n, line, e) == [lineNumber |-> n, line |-> line, err |-> e]

(***************************************************************************)
(* An ObjBuffer value, and the zero value new(ObjBuffer) gives.  sub is    *)
(* what the last buildBuffers call gave (status "none" before any call,    *)
(* "panic" when the call ended in a run-time panic), tris what the last    *)
(* Triangulate call returned, written the buffer Write was called on.      *)
(***************************************************************************)
ObjBuffer(v, vn, vt, f, l, g, fg, mtl, material) ==
    [V |-> v, VN |-> vn, VT |-> vt, F |-> f, L |-> l, G |-> g, FaceGroup |-> fg,
     MTL |-> mtl, activeMaterial |-> material]

NewObjBuffer == ObjBuffer(<<>>, <<>>, <<>>, <<>>, <<>>, <<>>, <<>>, "", "")

NoResults ==
    /\ sub = [status |-> "none", group |-> 0, buffer |-> NewObjBuffer]
    /\ tris = [called |-> FALSE, face |-> 0, status |-> "none", ret |-> <<>>]
    /\ out = <<>>
    /\ written = [set |-> FALSE, buffer |-> NewObjBuffer]
    /\ ear = [status |-> "idle", face |-> 0, input |-> <<>>, axes |-> <<1, 2>>, area |-> 0,
              st |-> [rem |-> <<>>, arr |-> <<>>, guessVert |-> 0, maxRounds |-> 10,
                      ret |-> <<>>, panic |-> FALSE]]

NewReader ==
    /\ V = <<>> /\ VN = <<>> /\ VT = <<>>
    /\ F = <<>> /\ L = <<>> /\ G = <<>> /\ FaceGroup = <<>>
    /\ MTL = "" /\ activeMaterial = ""
    /\ options = [DiscardDegeneratedFaces |-> FALSE]
    /\ pc = "new" /\ i = 0 /\ err = NoLineError /\ last = NoLine

Init == NewReader /\ NoResults

SetOptions(o) ==
    /\ pc = "new"
    /\ options' = o
    /\ UNCHANGED <<V, VN, VT, F, L, G, FaceGroup, MTL, activeMaterial, pc, i, err, last>>
    /\ UNCHANGED results

(***************************************************************************)
(* One iteration of Read's scan loop on a line (comment already stripped). *)
(* step is the buffer after the handler and the handler's error.           *)
(***************************************************************************)
KeepResetMaterial ==
    [err |-> NoError, V |-> V, VN |-> VN, VT |-> VT, F |-> F, L |-> L, G |-> G,
     FaceGroup |-> FaceGroup, MTL |-> MTL, activeMaterial |-> ""]

Keep == [err |-> NoError, V |-> V, VN |-> VN, VT |-> VT, F |-> F, L |-> L, G |-> G,
         FaceGroup |-> FaceGroup, MTL |-> MTL, activeMaterial |-> activeMaterial]

dispatch(line) ==
    CASE line.kw = "" -> Keep
      [] line.kw = "vt" ->
            LET r == processVertexTexCoord(line.fields, VT)
            IN [Keep EXCEPT !.err = r.err, !.VT = r.VT]
      [] line.kw = "v" ->
            LET r == processVertex(line.fields, V)
            IN [Keep EXCEPT !.err = r.err, !.V = r.V]
      [] line.kw = "vn" ->
            LET r == processVertexNormal(line.fields, VN)
            IN [Keep EXCEPT !.err = r.err, !.VN = r.VN]
      [] line.kw = "f" ->
            LET r == processFace(line.fields, F, Len(V), Len(VN), Len(VT),
                                 activeMaterial, options)
            IN [Keep EXCEPT !.err = r.err, !.F = r.F]
      [] line.kw = "l" ->
            LET r == processLine(line.fields, L, activeMaterial)
            IN [Keep EXCEPT !.err = r.err, !.L = r.L]
      [] line.kw = "g" ->
            LET r == processGroup(line, G, Len(F))
            IN [Keep EXCEPT !.err = r.err, !.G = r.G]
      [] line.kw = "mtllib" ->
            LET r == processMaterialLibrary(line, MTL)
            IN [Keep EXCEPT !.err = r.err, !.MTL = r.MTL]
      [] line.kw = "usemtl" ->
            LET r == processUseMaterial(line, activeMaterial)
            IN [Keep EXCEPT !.err = r.err, !.activeMaterial = r.activeMaterial,
                            !.FaceGroup = switchFaceGroup(FaceGroup, Len(F))]
      [] line.kw \in {"o", "s", "vp"} -> Keep
      [] OTHER -> [Keep EXCEPT !.err = "unknown keyword"]

ReadLine(line) ==
    /\ pc \in {"new", "reading"}
    /\ \E step \in {dispatch(line)} :
          /\ V' = step.V /\ VN' = step.VN /\ VT' = step.VT
          /\ F' = step.F /\ L' = step.L /\ G' = step.G
          /\ FaceGroup' = step.FaceGroup
          /\ MTL' = step.MTL /\ activeMaterial' = step.activeMaterial
          /\ IF step.err # NoError
             THEN /\ pc' = "failed"
                  /\ err' = lineError(i + 1, line, step.err)
             ELSE /\ pc' = "reading"
                  /\ err' = err
    /\ i' = i + 1
    /\ last' = line
    /\ UNCHANGED options
    /\ UNCHANGED results

(***************************************************************************)
(* The end of Read: the scanner stops (end of input, or a read error       *)
(* scanErr of the underlying stream), endGroup closes the open group, the  *)
(* last FaceGroup is closed and scanner.Err() is returned.                 *)
(***************************************************************************)
ReadEnd(scanErr) ==
    /\ pc \in {"new", "reading"}
    /\ G' = endGroup(G, Len(F))
    /\ FaceGroup' = finishFaceGroup(FaceGroup, Len(F))
    /\ pc' = "done"
    /\ err' = lineError(0, NoLine, scanErr)
    /\ UNCHANGED <<V, VN, VT, F, L, MTL, activeMaterial, options, i, last>>
    /\ UNCHANGED results

(***************************************************************************)
(* Input lines.                                                            *)
(***************************************************************************)
Line(kw, fields) == [kw |-> kw, upper |-> FALSE, fields |-> fields]

UpperLine(kw, fields) == [kw |-> kw, upper |-> TRUE, fields |-> fields]

Num(x) == <<IntPart(x)>>
Word(s) == <<WordPart(s)>>

VertexTok(v) == <<IntPart(v)>>
VertexTexTok(v, t) == <<IntPart(v), IntPart(t)>>
VertexTexNormalTok(v, t, n) == <<IntPart(v), IntPart(t), IntPart(n)>>
VertexNormalTok(v, n) == <<IntPart(v), EmptyPart, IntPart(n)>>

VertexLine == Line("v", <<Num(1), Num(0), Num(0)>>)
NormalLine == Line("vn", <<Num(0), Num(0), Num(1)>>)
TexCoordLine == Line("vt", <<Num(0), Num(1)>>)
BlankLine == Line("", <<>>)

(***************************************************************************)
(* Spec: Read on inputs made of v, f, g and usemtl lines and blank lines.  *)
(***************************************************************************)
SpecLines ==
    { VertexLine, BlankLine,
      Line("f", <<VertexTok(1), VertexTok(2), VertexTok(3)>>),
      Line("f", <<VertexTok(1), VertexTok(1), VertexTok(2)>>),
      Line("f", <<VertexTok(1), VertexTok(2)>>),
      Line("f", <<VertexTok(1)>>),
      Line("f", <<>>),
      Line("g", <<Word("A")>>), Line("g", <<Word("B")>>),
      Line("usemtl", <<Word("m")>>) }

ScanErrors == {NoError, "read error"}

Configure == \E o \in [DiscardDegeneratedFaces : BOOLEAN] : SetOptions(o)

ReadInput ==
    /\ pc \in {"new", "reading"}
    /\ i < MaxLines
    /\ \E line \in SpecLines : ReadLine(line)

Finish == \E scanErr \in ScanErrors : ReadEnd(scanErr)

Next == Configure \/ ReadInput \/ Finish

Spec == Init /\ [][Next]_vars

(***************************************************************************)
(* SpecDefault: Read on inputs without a g line.                           *)
(***************************************************************************)
UngroupedLines == {line \in SpecLines : line.kw # "g"}

ReadUngrouped ==
    /\ pc \in {"new", "reading"}
    /\ i < MaxLines
    /\ \E line \in UngroupedLines : ReadLine(line)

NextDefault == Configure \/ ReadUngrouped \/ Finish

SpecDefault == Init /\ [][NextDefault]_vars

(***************************************************************************)
(* SpecFace: processFace on face lines of every corner grammar, after any  *)
(* number of v, vn and vt lines within the bounds.  The input is a run of  *)
(* v lines, a run of vn lines, a run of vt lines and one face line, with   *)
(* further v lines after it when it stored a face.  Token values range     *)
(* from before the first to past the last element of the arrays.           *)
(***************************************************************************)
MinCorners == 3

VertexVals == (0 - MaxV - 1)..(MaxV + 1)
SlotVals == (0 - MaxVN - 2)..(MaxVN + 1)
ShortVals == {-1, 0, 1}

MalformedToks == { <<AlphaPart>>, <<IntPart(1), EmptyPart>>,
                   <<IntPart(1), IntPart(1), IntPart(1), IntPart(1)>> }

SlotToks ==
    {VertexTexTok(v, t) : v \in ShortVals, t \in SlotVals}
    \cup {VertexNormalTok(v, n) : v \in ShortVals, n \in SlotVals}
    \cup {VertexTexNormalTok(v, t, n) : v \in ShortVals, t \in SlotVals, n \in SlotVals}
    \cup MalformedToks

Ascending(n) == [j \in 1..n |-> VertexTok(j)]
Uniform(n) == [j \in 1..n |-> VertexTok(1)]

VertexOnlyFields ==
    UNION {[1..n -> {VertexTok(v) : v \in VertexVals}] : n \in 0..MinCorners}
    \cup {Ascending(n) : n \in MinCorners..MaxCorners}

OneSlotFields ==
    {[base EXCEPT ![p] = tok] :
        base \in {Ascending(n) : n \in MinCorners..MaxCorners}
                 \cup {Uniform(n) : n \in MinCorners..MaxCorners},
        p \in 1..MinCorners, tok \in SlotToks}

TexCoordFields == {<<VertexTexTok(1, 1), VertexTexTok(2, 2), VertexTexTok(3, 2)>>}

FaceLines ==
    {Line("f", fields) : fields \in VertexOnlyFields \cup OneSlotFields \cup TexCoordFields}

ReadAttribute ==
    \/ /\ Len(V) < MaxV
       /\ Len(F) > 0 \/ last.kw \notin {"f", "vn", "vt"}
       /\ ReadLine(VertexLine)
    \/ /\ Len(VN) < MaxVN
       /\ Len(F) = 0 /\ last.kw \notin {"f", "vt"}
       /\ ReadLine(NormalLine)
    \/ /\ Len(VT) < MaxVT
       /\ Len(F) = 0 /\ last.kw # "f"
       /\ ReadLine(TexCoordLine)

ReadFace ==
    /\ pc \in {"new", "reading"}
    /\ Len(F) = 0 /\ last.kw # "f"
    /\ \E line \in FaceLines : ReadLine(line)

NextFace == Configure \/ ReadAttribute \/ ReadFace

SpecFace == Init /\ [][NextFace]_vars

(***************************************************************************)
(* Vocabulary of the properties.  FaceStep is a step of Read's loop on an  *)
(* f line; the line is last', the buffer before the line is unprimed.      *)
(* The expected values are written from the file format, not from the      *)
(* handlers: a positive token k denotes index k - 1, a negative token k    *)
(* denotes index count + k, the slot order of a corner is                  *)
(* vertex/texcoord/normal.                                                 *)
(***************************************************************************)
FaceStep == i' = i + 1 /\ last'.kw = "f"

WellFormed(field) ==
    \/ Len(field) \in {1, 2, 3} /\ \A q \in 1..Len(field) : IsInt(field[q])
    \/ Len(field) = 3 /\ IsInt(field[1]) /\ field[2] = EmptyPart /\ IsInt(field[3])

HasTexCoord(field) == Len(field) >= 2 /\ IsInt(field[2])
HasNormal(field) == Len(field) = 3 /\ IsInt(field[3])

VertexOf(field) == field[1].n
TexCoordOf(field) == field[2].n
NormalOf(field) == field[3].n

Denoted(k, count) == IF k > 0 THEN k - 1 ELSE count + k

PositiveInRange(k, count) == k >= 1 /\ (count > 0 => k <= count)

ValidPositiveField(field, nV, nVN, nVT) ==
    /\ WellFormed(field)
    /\ PositiveInRange(VertexOf(field), nV)
    /\ HasTexCoord(field) => PositiveInRange(TexCoordOf(field), nVT)
    /\ HasNormal(field) => PositiveInRange(NormalOf(field), nVN)

ValidPositiveLine(fields, nV, nVN, nVT) ==
    /\ Len(fields) >= 3
    /\ \A j \in 1..Len(fields) : ValidPositiveField(fields[j], nV, nVN, nVT)

ExpectedCorner(field) ==
    FaceCorner(VertexOf(field) - 1,
               IF HasNormal(field) THEN NormalOf(field) - 1 ELSE Absent,
               IF HasTexCoord(field) THEN TexCoordOf(field) - 1 ELSE Absent)

ExpectedCorners(fields) == [j \in 1..Len(fields) |-> ExpectedCorner(fields[j])]

DistinctVertices(fields) ==
    \A a, b \in 1..Len(fields) : a # b => VertexOf(fields[a]) # VertexOf(fields[b])

AppendsOneFace(corners) ==
    /\ Len(F') = Len(F) + 1
    /\ \A k \in 1..Len(F) : F'[k] = F[k]
    /\ F'[Len(F')].Corners = corners

Rejected == pc' = "failed" /\ err'.err # NoError /\ err'.lineNumber = i' /\ F' = F

HasZero(fields) ==
    \E j \in 1..Len(fields) : \E q \in 1..Len(fields[j]) :
        IsInt(fields[j][q]) /\ fields[j][q].n = 0

C2_ZeroRejected ==
    [][(FaceStep /\ HasZero(last'.fields)) => Rejected]_vars

C2_Witness ==
    /\ last.kw = "f" /\ pc = "failed"
    /\ Len(last.fields) >= 3
    /\ \A j \in 1..Len(last.fields) : WellFormed(last.fields[j])
    /\ \E j \in 1..Len(last.fields) :
          /\ HasNormal(last.fields[j]) /\ NormalOf(last.fields[j]) = 0
          /\ VertexOf(last.fields[j]) # 0 /\ TexCoordOf(last.fields[j]) # 0
    /\ Len(V) >= 1 /\ Len(VN) >= 1
    /\ F = <<>>

(***************************************************************************)
(* C3: with n >= 1 positions appended before a face line, a negative       *)
(* vertex token k, -n <= k <= -1, is stored as vertex index n + k; and no  *)
(* later line changes a stored face.                                       *)
(***************************************************************************)
C3_NegativeVertexResolved ==
    [][/\ (FaceStep /\ Len(F') = Len(F) + 1) =>
            \A j \in 1..Len(last'.fields) :
               LET k == VertexOf(last'.fields[j])
               IN (Len(V) >= 1 /\ k <= -1 /\ k >= 0 - Len(V)) =>
                     F'[Len(F')].Corners[j].VertexIndex = Len(V) + k
       /\ \A k \in 1..Len(F) : Len(F') >= k /\ F'[k] = F[k]]_vars

C3_Witness ==
    /\ last.kw = "f"
    /\ last.fields = <<VertexTok(-1), VertexTok(-2), VertexTok(-3)>>
    /\ Len(V) = 3
    /\ pc = "reading"
    /\ Len(F) = 1
    /\ [j \in 1..3 |-> F[1].Corners[j].VertexIndex] = <<2, 1, 0>>

(***************************************************************************)
(* C4 as stated: with m >= 1 normals (texcoords) appended before a face    *)
(* line, a negative normal (texcoord) token k, -m <= k <= -1, is stored as *)
(* index m + k; the token -1 is index m - 1, not the absent sentinel.      *)
(***************************************************************************)
C4_AsStated ==
    [][(FaceStep /\ Len(F') = Len(F) + 1) =>
          \A j \in 1..Len(last'.fields) :
             LET field == last'.fields[j]
                 stored == F'[Len(F')].Corners[j]
             IN /\ (/\ HasNormal(field) /\ Len(VN) >= 1
                    /\ NormalOf(field) <= -1 /\ NormalOf(field) >= 0 - Len(VN))
                      => stored.NormalIndex = Len(VN) + NormalOf(field)
                /\ (/\ HasTexCoord(field) /\ Len(VT) >= 1
                    /\ TexCoordOf(field) <= -1 /\ TexCoordOf(field) >= 0 - Len(VT))
                      => stored.TexCoordIndex = Len(VT) + TexCoordOf(field)]_vars

(***************************************************************************)
(* C5 as stated: when an attribute array is non-empty, a face line with a  *)
(* corner whose denoted index into that array lies outside [0, length) is  *)
(* rejected with an error and no face is appended.                         *)
(***************************************************************************)
OutOfRange(k, count) ==
    count > 0 /\ k # 0 /\ (Denoted(k, count) < 0 \/ Denoted(k, count) >= count)

HasOutOfRange(fields, nV, nVN, nVT) ==
    \E j \in 1..Len(fields) :
        /\ WellFormed(fields[j])
        /\ \/ OutOfRange(VertexOf(fields[j]), nV)
           \/ HasNormal(fields[j]) /\ OutOfRange(NormalOf(fields[j]), nVN)
           \/ HasTexCoord(fields[j]) /\ OutOfRange(TexCoordOf(fields[j]), nVT)

C5_AsStated ==
    [][(FaceStep /\ HasOutOfRange(last'.fields, Len(V), Len(VN), Len(VT)))
          => Rejected]_vars

(***************************************************************************)
(* C6 as stated: every corner of every face stored in F has                *)
(* VertexIndex >= 0.                                                       *)
(***************************************************************************)
C6_AsStated ==
    \A k \in 1..Len(F) : \A j \in 1..Len(F[k].Corners) :
        F[k].Corners[j].VertexIndex >= 0

(***************************************************************************)
(* C7: a face line with fewer than 3 corner tokens is rejected with an     *)
(* error and F is left unchanged.                                          *)
(***************************************************************************)
C7_TooFewCornersRejected ==
    [][(FaceStep /\ Len(last'.fields) < 3) => Rejected]_vars

C7_Witness ==
    /\ last.kw = "f"
    /\ last.fields = <<VertexTok(1), VertexTok(2)>>
    /\ pc = "failed" /\ err.err # NoError
    /\ Len(F) >= 1

(***************************************************************************)
(* C8 as stated, for the inputs of its example, those with at least one    *)
(* stored face: after a successful Read, G contains no group with zero     *)
(* faces.                                                                  *)
(***************************************************************************)
Succeeded == pc = "done" /\ err.err = NoError

C8_AsStated ==
    (Succeeded /\ Len(F) >= 1) => \A k \in 1..Len(G) : G[k].FaceCount > 0

(***************************************************************************)
(* C9: if the input contains no g line, then after a successful Read G is  *)
(* exactly one group, named "default group", with FirstFaceIndex 0 and     *)
(* FaceCount len(F).                                                       *)
(***************************************************************************)
C9_DefaultGroup ==
    Succeeded => G = <<Group("default group", 0, Len(F))>>

C9_Witness ==
    /\ Succeeded
    /\ Len(F) >= 2
    /\ activeMaterial = "m"
    /\ G = <<Group("default group", 0, Len(F))>>

(***************************************************************************)
(* C10: after a successful Read the groups of G, in list order, describe   *)
(* face ranges [FirstFaceIndex, FirstFaceIndex + FaceCount) that lie       *)
(* inside [0, len(F)), are pairwise disjoint and are ordered by            *)
(* FirstFaceIndex, each group starting where the previous one ends.  (A    *)
(* group of zero faces has an empty range, so the order of FirstFaceIndex  *)
(* is not strict where G holds such a group.)                              *)
(***************************************************************************)
FaceRange(g) == g.FirstFaceIndex..(g.FirstFaceIndex + g.FaceCount - 1)

MaxKeywordLines == 4

CommentLine == Line("", <<Word("#")>>)

KeywordLines ==
    { VertexLine, BlankLine, CommentLine,
      Line("f", <<VertexTok(1), VertexTok(1), VertexTok(1)>>),
      Line("l", <<Num(1), Num(1)>>),
      Line("g", <<Word("A")>>),
      Line("usemtl", <<Word("m")>>), Line("usemtl", <<Word("n")>>),
      Line("usemtl", <<>>),
      Line("mtllib", <<Word("a")>>), Line("mtllib", <<Word("b")>>),
      Line("o", <<Word("x")>>), Line("s", <<Num(1)>>), Line("vp", <<Num(1)>>),
      Line("q", <<Num(1)>>) }

ReadKeyword ==
    /\ pc \in {"new", "reading"}
    /\ i < MaxKeywordLines
    /\ \E line \in KeywordLines : ReadLine(line)

NextKeyword == ReadKeyword \/ Finish

SpecKeyword == Init /\ [][NextKeyword]_vars

LineStep == i' = i + 1

Materials(elements) == [j \in 1..Len(elements) |-> elements[j].Material]

Extends(before, after) ==
    /\ Len(after) >= Len(before)
    /\ SubSeq(after, 1, Len(before)) = before

(***************************************************************************)
(* C11: a usemtl line with a name sets the active material to that name    *)
(* and leaves G and the materials of the stored faces and polylines        *)
(* unchanged; no other line changes the active material, and a face or     *)
(* polyline stored by a line carries the active material of that moment,   *)
(* so it carries the name of the last usemtl line before it, and the empty *)
(* name when no usemtl line came before it.                                *)
(***************************************************************************)
UseMaterialStep ==
    LineStep /\ last'.kw = "usemtl" /\ ~last'.upper /\ Len(last'.fields) > 0

C11_UseMaterial ==
    [][/\ UseMaterialStep =>
             /\ pc' = "reading"
             /\ activeMaterial' = JoinFields(last'.fields)
             /\ G' = G
             /\ Materials(F') = Materials(F)
             /\ Materials(L') = Materials(L)
       /\ (LineStep /\ last'.kw # "usemtl") =>
             /\ activeMaterial' = activeMaterial
             /\ Extends(F, F') /\ Extends(L, L')
             /\ \A j \in (Len(F) + 1)..Len(F') : F'[j].Material = activeMaterial
             /\ \A j \in (Len(L) + 1)..Len(L') : L'[j].Material = activeMaterial
       /\ (pc' # "done" /\ FaceGroup' = <<>>) =>
             /\ \A j \in 1..Len(F') : F'[j].Material = ""
             /\ \A j \in 1..Len(L') : L'[j].Material = ""]_vars

C11_Witness ==
    /\ last.kw = "f"
    /\ Len(F) = 2
    /\ F[1].Material = ""
    /\ F[2].Material = "m"
    /\ activeMaterial = "m"

(***************************************************************************)
(* C12: a mtllib line read when MTL is non-empty fails and leaves MTL      *)
(* unchanged; a mtllib line with a path read when MTL is empty stores the  *)
(* path and does not fail.                                                 *)
(***************************************************************************)
MaterialLibraryStep == LineStep /\ last'.kw = "mtllib" /\ ~last'.upper

C12_MaterialLibrary ==
    [][MaterialLibraryStep =>
          IF MTL # ""
          THEN /\ pc' = "failed"
               /\ err'.err = "material library already set"
               /\ MTL' = MTL
          ELSE Len(last'.fields) > 0 =>
                  /\ pc' = "reading"
                  /\ err' = err
                  /\ MTL' = JoinFields(last'.fields)]_vars

C12_Witness ==
    /\ pc = "failed"
    /\ last.kw = "mtllib"
    /\ last.fields = <<Word("b")>>
    /\ MTL = "a"

(***************************************************************************)
(* C13: a line with the keyword o, s or vp leaves V, VN, VT, F, L, G, MTL  *)
(* and the active material unchanged and does not fail; a line whose       *)
(* keyword is not one of the eleven keywords of the switch makes Read      *)
(* fail.                                                                   *)
(***************************************************************************)
IgnoredKeywords == {"o", "s", "vp"}

KnownKeywords == {"v", "vt", "vn", "f", "l", "g", "mtllib", "usemtl"} \cup IgnoredKeywords

C13_IgnoredAndUnknown ==
    [][/\ (LineStep /\ last'.kw \in IgnoredKeywords) =>
             /\ pc' = "reading"
             /\ err' = err
             /\ <<V, VN, VT, F, L, G, MTL, activeMaterial>>'
                   = <<V, VN, VT, F, L, G, MTL, activeMaterial>>
       /\ (LineStep /\ last'.kw # "" /\ last'.kw \notin KnownKeywords) =>
             /\ pc' = "failed"
             /\ err'.err # NoError]_vars

C13_Witness ==
    /\ last.kw \in IgnoredKeywords
    /\ pc = "reading"
    /\ activeMaterial = "m"
    /\ MTL = "a"
    /\ Len(V) = 1

(***************************************************************************)
(* C14: every line Read scans, blank and comment-only lines included,      *)
(* advances the line counter by one; Read fails at most once, on the line  *)
(* whose handler fails, with an error that carries the number of that line *)
(* and the line; after the failure no line is read and the end of Read is  *)
(* not run, so the buffer stays as it is.                                  *)
(***************************************************************************)
C14_StopsAtFirstFailure ==
    /\ [][/\ pc' \in {"reading", "failed"} => LineStep
          /\ (LineStep /\ last'.kw = "") => (pc' = "reading" /\ buffer' = buffer)
          /\ pc' = "failed" =>
                /\ pc # "failed"
                /\ err'.err # NoError
                /\ err'.lineNumber = i'
                /\ err'.line = last']_vars
    /\ [](pc = "failed" =>
             /\ err.lineNumber = i
             /\ ~ENABLED NextKeyword)

C14_Witness ==
    /\ pc = "failed"
    /\ err.lineNumber = 3
    /\ last.kw = "q"
    /\ V = <<>> /\ VN = <<>> /\ VT = <<>> /\ F = <<>> /\ L = <<>>
    /\ G = <<>> /\ FaceGroup = <<>> /\ MTL = "" /\ activeMaterial = ""

(***************************************************************************)
(* Group.buildBuffers.  Slices are sequences, a Go index k is the element  *)
(* k + 1.  An index expression outside the slice is a run-time panic, so   *)
(* the call returns nothing: the scan carries panic and stops changing.    *)
(* The scan state st holds the new buffer's V, VN and F, the two index     *)
(* mappings, and the Corners slice of the face being copied.               *)
(***************************************************************************)
FillIntSlice(n, val) == [k \in 1..n |-> val]

InSlice(k, slice) == k >= 0 /\ k < Len(slice)

copyCornerNoReuse(st, origCorner, j, parentBuffer) ==
    LET origVertIdx == origCorner.VertexIndex
        origNormIdx == origCorner.NormalIndex
    IN IF st.panic \/ ~InSlice(origVertIdx, parentBuffer.V)
          \/ ~InSlice(origNormIdx, parentBuffer.VN)
       THEN [st EXCEPT !.panic = TRUE]
       ELSE [st EXCEPT !.V = Append(st.V, parentBuffer.V[origVertIdx + 1]),
                       !.VN = Append(st.VN, parentBuffer.VN[origNormIdx + 1]),
                       !.Corners[j] = FaceCorner(Len(st.V), Len(st.VN), 0)]

copyCorner(st, origCorner, j, parentBuffer) ==
    LET origVertIdx == origCorner.VertexIndex
        origNormIdx == origCorner.NormalIndex
    IN IF st.panic \/ ~InSlice(origVertIdx, st.vertexMapping)
       THEN [st EXCEPT !.panic = TRUE]
       ELSE LET seenV == st.vertexMapping[origVertIdx + 1] # -1
                newVertIdx == IF seenV THEN st.vertexMapping[origVertIdx + 1] ELSE Len(st.V)
                stV == IF seenV THEN st
                       ELSE [st EXCEPT !.V = Append(st.V, parentBuffer.V[origVertIdx + 1]),
                                       !.vertexMapping[origVertIdx + 1] = newVertIdx]
            IN IF ~InSlice(origNormIdx, st.normalMapping)
               THEN [stV EXCEPT !.panic = TRUE]
               ELSE LET seenN == st.normalMapping[origNormIdx + 1] # -1
                        newNormIdx == IF seenN THEN st.normalMapping[origNormIdx + 1]
                                      ELSE Len(st.VN)
                        stN == IF seenN THEN stV
                               ELSE [stV EXCEPT
                                       !.VN = Append(stV.VN, parentBuffer.VN[origNormIdx + 1]),
                                       !.normalMapping[origNormIdx + 1] = newNormIdx]
                    IN [stN EXCEPT !.Corners[j] = FaceCorner(newVertIdx, newNormIdx, 0)]

RECURSIVE copyCorners(_, _, _, _)
copyCorners(st, origCorners, j, parentBuffer) ==
    IF j > Len(origCorners) \/ st.panic
    THEN st
    ELSE copyCorners(copyCorner(st, origCorners[j], j, parentBuffer), origCorners, j + 1,
                     parentBuffer)

copyFace(st, k, parentBuffer) ==
    IF st.panic \/ ~InSlice(k, parentBuffer.F)
    THEN [st EXCEPT !.panic = TRUE]
    ELSE LET originalFace == parentBuffer.F[k + 1]
             made == [st EXCEPT !.Corners = [j \in 1..Len(originalFace.Corners) |->
                                                FaceCorner(0, 0, 0)]]
             done == copyCorners(made, originalFace.Corners, 1, parentBuffer)
         IN IF done.panic
            THEN done
            ELSE [done EXCEPT !.F = Append(done.F, Face(done.Corners, originalFace.Material))]

RECURSIVE copyFaces(_, _, _, _)
copyFaces(st, k, end, parentBuffer) ==
    IF k >= end \/ st.panic
    THEN st
    ELSE copyFaces(copyFace(st, k, parentBuffer), k + 1, end, parentBuffer)

NewScan(parentBuffer) ==
    [V |-> <<>>, VN |-> <<>>, F |-> <<>>, Corners |-> <<>>, panic |-> FALSE,
     vertexMapping |-> FillIntSlice(Len(parentBuffer.V), -1),
     normalMapping |-> FillIntSlice(Len(parentBuffer.VN), -1)]

Panicked(parentBuffer) == [status |-> "panic", parent |-> parentBuffer, buffer |-> NewObjBuffer]

buildBuffersKeepFirst(g, parentBuffer) ==
    LET st == copyFaces(NewScan(parentBuffer), g.FirstFaceIndex,
                        g.FirstFaceIndex + g.FaceCount, parentBuffer)
    IN IF st.panic
       THEN Panicked(parentBuffer)
       ELSE [status |-> "ok",
             parent |-> parentBuffer,
             buffer |-> ObjBuffer(st.V, st.VN, <<>>, st.F, <<>>,
                                  <<Group(g.Name, g.FirstFaceIndex, g.FaceCount)>>, <<>>,
                                  parentBuffer.MTL, "")]

buildBuffersInPlace(g, parentBuffer) ==
    LET st == copyFaces(NewScan(parentBuffer), g.FirstFaceIndex,
                        g.FirstFaceIndex + g.FaceCount, parentBuffer)
    IN IF st.panic
       THEN Panicked(parentBuffer)
       ELSE [status |-> "ok",
             parent |-> [parentBuffer EXCEPT !.F =
                            [k \in 1..Len(parentBuffer.F) |->
                                IF k > g.FirstFaceIndex /\ k <= g.FirstFaceIndex + g.FaceCount
                                THEN st.F[k - g.FirstFaceIndex]
                                ELSE parentBuffer.F[k]]],
             buffer |-> ObjBuffer(st.V, st.VN, <<>>, st.F, <<>>,
                                  <<Group(g.Name, 0, g.FaceCount)>>, <<>>,
                                  parentBuffer.MTL, "")]

(***************************************************************************)
(* buildBuffers gives the new buffer and the parent buffer as the call     *)
(* leaves it: the code assigns to no field and no element of parentBuffer  *)
(* or g, and every slice of the new buffer is freshly made or appended.    *)
(***************************************************************************)
buildBuffers(g, parentBuffer) ==
    LET st == copyFaces(NewScan(parentBuffer), g.FirstFaceIndex,
                        g.FirstFaceIndex + g.FaceCount, parentBuffer)
    IN IF st.panic
       THEN Panicked(parentBuffer)
       ELSE [status |-> "ok",
             parent |-> parentBuffer,
             buffer |-> ObjBuffer(st.V, st.VN, <<>>, st.F, <<>>,
                                  <<Group(g.Name, 0, g.FaceCount)>>, <<>>,
                                  parentBuffer.MTL, "")]

(***************************************************************************)
(* BuildBuffers(k): the host calls buildBuffers on the k-th group of the   *)
(* buffer a successful Read has filled.                                    *)
(***************************************************************************)
BuildBuffers(k) ==
    /\ pc = "done" /\ err.err = NoError
    /\ k \in 1..Len(G)
    /\ \E r \in {buildBuffers(G[k], ObjBuffer(V, VN, VT, F, L, G, FaceGroup, MTL,
                                              activeMaterial))} :
          /\ sub' = [status |-> r.status, group |-> k, buffer |-> r.buffer]
          /\ V' = r.parent.V /\ VN' = r.parent.VN /\ VT' = r.parent.VT
          /\ F' = r.parent.F /\ L' = r.parent.L /\ G' = r.parent.G
          /\ FaceGroup' = r.parent.FaceGroup
          /\ MTL' = r.parent.MTL /\ activeMaterial' = r.parent.activeMaterial
    /\ UNCHANGED <<options, pc, i, err, last, tris, out, written, ear>>

(***************************************************************************)
(* SpecBuild: Read of MaxV positions (two of them equal in value) and      *)
(* MaxBuildVN normals, then of up to MaxBuildLines face, g and usemtl      *)
(* lines; after Read has returned, buildBuffers is called on groups of the *)
(* buffer, any number of times in any order.                               *)
(***************************************************************************)
MaxBuildVN == 2
MaxBuildLines == 3

Succ1(a, n) == (a % n) + 1

BuildVertexLine(k) == Line("v", <<Num(k % 2), Num(0), Num(0)>>)

BuildNormalLine(k) == Line("vn", <<Num(0), Num(0), Num(k + 1)>>)

BuildFaceLine(a, p) ==
    Line("f", <<VertexNormalTok(a, p),
                VertexNormalTok(Succ1(a, MaxV), Succ1(p, MaxBuildVN)),
                VertexNormalTok(Succ1(Succ1(a, MaxV), MaxV), p)>>)

BuildLines ==
    { BuildFaceLine(a, p) : a \in 1..MaxV, p \in {1, MaxBuildVN} }
    \cup { Line("f", <<VertexNormalTok(MaxV, MaxBuildVN), VertexNormalTok(MaxV, MaxBuildVN),
                       VertexNormalTok(1, MaxBuildVN)>>),
           Line("f", <<VertexTok(1), VertexTok(2), VertexTok(3)>>),
           Line("g", <<Word("A")>>), Line("g", <<Word("B")>>),
           Line("usemtl", <<Word("m")>>) }

ReadBuildAttribute ==
    /\ pc \in {"new", "reading"}
    /\ IF Len(V) < MaxV
       THEN ReadLine(BuildVertexLine(Len(V)))
       ELSE Len(VN) < MaxBuildVN /\ ReadLine(BuildNormalLine(Len(VN)))

ReadBuildBody ==
    /\ pc \in {"new", "reading"}
    /\ Len(V) = MaxV /\ Len(VN) = MaxBuildVN
    /\ i < MaxV + MaxBuildVN + MaxBuildLines
    /\ \E line \in BuildLines : ReadLine(line)

FinishRead == ReadEnd(NoError)

Extract == \E k \in 1..Len(G) : BuildBuffers(k)

NextBuild == ReadBuildAttribute \/ ReadBuildBody \/ FinishRead \/ Extract

SpecBuild == Init /\ [][NextBuild]_vars

BuildStep == pc = "done" /\ pc' = "done"

RangeFaces(g) == SubSeq(F, g.FirstFaceIndex + 1, g.FirstFaceIndex + g.FaceCount)

RECURSIVE Flatten(_)
Flatten(faces) ==
    IF faces = <<>> THEN <<>> ELSE Head(faces).Corners \o Flatten(Tail(faces))

RECURSIVE FirstSeen(_, _)
FirstSeen(indices, seen) ==
    IF indices = <<>>
    THEN seen
    ELSE FirstSeen(Tail(indices),
                   IF \E k \in 1..Len(seen) : seen[k] = Head(indices)
                   THEN seen
                   ELSE Append(seen, Head(indices)))

VertexRefs(corners) == [j \in 1..Len(corners) |-> corners[j].VertexIndex]

NormalRefs(corners) == [j \in 1..Len(corners) |-> corners[j].NormalIndex]

Elements(seq) == {seq[j] : j \in 1..Len(seq)}

AllValid(corners) ==
    \A j \in 1..Len(corners) :
       /\ InSlice(corners[j].VertexIndex, V)
       /\ InSlice(corners[j].NormalIndex, VN)

(***************************************************************************)
(* C17: when every corner of the group's face range has a valid vertex and *)
(* normal index, buildBuffers returns a buffer whose V and VN are the      *)
(* referenced positions and normals, one per distinct referenced index, in *)
(* the order of first occurrence in the scan of the faces and corners, and *)
(* whose faces are the faces of the range in order, with as many corners   *)
(* each, every corner pointing at the value its source corner points at.   *)
(***************************************************************************)
C17_FirstSeenCompaction ==
    [][BuildStep =>
          LET faces == RangeFaces(G[sub'.group])
              corners == Flatten(faces)
              vs == FirstSeen(VertexRefs(corners), <<>>)
              ns == FirstSeen(NormalRefs(corners), <<>>)
              b == sub'.buffer
          IN AllValid(corners) =>
                /\ sub'.status = "ok"
                /\ b.V = [j \in 1..Len(vs) |-> V[vs[j] + 1]]
                /\ b.VN = [j \in 1..Len(ns) |-> VN[ns[j] + 1]]
                /\ Len(b.V) = Cardinality(Elements(VertexRefs(corners)))
                /\ Len(b.VN) = Cardinality(Elements(NormalRefs(corners)))
                /\ Len(b.F) = Len(faces)
                /\ \A k \in 1..Len(faces) :
                      /\ Len(b.F[k].Corners) = Len(faces[k].Corners)
                      /\ \A j \in 1..Len(faces[k].Corners) :
                            /\ b.V[b.F[k].Corners[j].VertexIndex + 1]
                                  = V[faces[k].Corners[j].VertexIndex + 1]
                            /\ b.VN[b.F[k].Corners[j].NormalIndex + 1]
                                  = VN[faces[k].Corners[j].NormalIndex + 1]]_vars

C17_Witness ==
    /\ sub.status = "ok"
    /\ Len(sub.buffer.F) = 2
    /\ Len(sub.buffer.V) = MaxV
    /\ sub.buffer.V[1] = V[MaxV]
    /\ F[G[sub.group].FirstFaceIndex + 1].Corners[1].VertexIndex = MaxV - 1
    /\ sub.buffer.F[1].Corners[1].VertexIndex = 0
    /\ sub.buffer.F[2].Corners[3].VertexIndex = 0

(***************************************************************************)
(* C18: a buffer buildBuffers returns has one group record, with the name  *)
(* of the source group, FirstFaceIndex 0 and FaceCount equal to the number *)
(* of its faces; its MTL is the MTL of the source, and its k-th face has   *)
(* the material of the k-th face of the source range.                      *)
(***************************************************************************)
C18_OneGroupRecord ==
    [][(BuildStep /\ sub'.status = "ok") =>
          LET g == G[sub'.group]
              faces == RangeFaces(g)
              b == sub'.buffer
          IN /\ Len(b.G) = 1
             /\ b.G[1].Name = g.Name
             /\ b.G[1].FirstFaceIndex = 0
             /\ b.G[1].FaceCount = Len(b.F)
             /\ b.MTL = MTL
             /\ Len(b.F) = Len(faces)
             /\ \A k \in 1..Len(faces) : b.F[k].Material = faces[k].Material]_vars

C18_Witness ==
    /\ sub.status = "ok"
    /\ G[sub.group].FirstFaceIndex > 0
    /\ G[sub.group].Name = "A"
    /\ Len(sub.buffer.F) = 1
    /\ sub.buffer.G = <<Group("A", 0, 1)>>

Abs(x) == IF x < 0 THEN 0 - x ELSE x

Coord(positions, vi, axis) == positions[vi + 1][axis + 1]

pnpoly(nvert, vertx, verty, testx, testy) ==
    LET crosses(k) ==
            LET j == IF k = 0 THEN nvert - 1 ELSE k - 1
                d == verty[j + 1] - verty[k + 1]
                n == (vertx[j + 1] - vertx[k + 1]) * (testy - verty[k + 1])
                t == testx - vertx[k + 1]
            IN /\ (verty[k + 1] > testy) # (verty[j + 1] > testy)
               /\ IF d > 0 THEN t * d < n ELSE t * d > n
    IN Cardinality({k \in 0..(nvert - 1) : crosses(k)}) % 2 = 1

(***************************************************************************)
(* V[vi] is read only behind a guard against vi being too large; a         *)
(* negative vi passes the guard and the read is a run-time panic.  The     *)
(* loops are followed in the order of the code, so a panic is found where  *)
(* the code would reach the read.                                          *)
(***************************************************************************)
RECURSIVE chooseAxes(_, _, _)
chooseAxes(faces, positions, k) ==
    LET npolys == Len(faces)
    IN IF k >= npolys
       THEN [panic |-> FALSE, axes |-> <<1, 2>>]
       ELSE LET vi0 == faces[((k + 0) % npolys) + 1].VertexIndex
                vi1 == faces[((k + 1) % npolys) + 1].VertexIndex
                vi2 == faces[((k + 2) % npolys) + 1].VertexIndex
            IN IF vi0 >= Len(positions) \/ vi1 >= Len(positions) \/ vi2 >= Len(positions)
               THEN chooseAxes(faces, positions, k + 1)
               ELSE IF vi0 < 0 \/ vi1 < 0 \/ vi2 < 0
               THEN [panic |-> TRUE, axes |-> <<1, 2>>]
               ELSE LET e0x == Coord(positions, vi1, 0) - Coord(positions, vi0, 0)
                        e0y == Coord(positions, vi1, 1) - Coord(positions, vi0, 1)
                        e0z == Coord(positions, vi1, 2) - Coord(positions, vi0, 2)
                        e1x == Coord(positions, vi2, 0) - Coord(positions, vi1, 0)
                        e1y == Coord(positions, vi2, 1) - Coord(positions, vi1, 1)
                        e1z == Coord(positions, vi2, 2) - Coord(positions, vi1, 2)
                        cx == Abs(e0y * e1z - e0z * e1y)
                        cy == Abs(e0z * e1x - e0x * e1z)
                        cz == Abs(e0x * e1y - e0y * e1x)
                    IN IF cx > 0 \/ cy > 0 \/ cz > 0
                       THEN [panic |-> FALSE,
                             axes |-> IF cx > cy /\ cx > cz
                                      THEN <<1, 2>>
                                      ELSE IF cz > cx /\ cz > cy THEN <<0, 1>> ELSE <<0, 2>>]
                       ELSE chooseAxes(faces, positions, k + 1)

Skipped(positions, vi, axes) ==
    vi + axes[1] >= Len(positions) \/ vi + axes[2] >= Len(positions)

RECURSIVE area2(_, _, _, _)
area2(faces, positions, axes, k) ==
    LET npolys == Len(faces)
    IN IF k >= npolys
       THEN [panic |-> FALSE, area |-> 0]
       ELSE LET vi0 == faces[((k + 0) % npolys) + 1].VertexIndex
                vi1 == faces[((k + 1) % npolys) + 1].VertexIndex
                rest == area2(faces, positions, axes, k + 1)
            IN IF Skipped(positions, vi0, axes) \/ Skipped(positions, vi1, axes)
               THEN rest
               ELSE IF vi0 < 0 \/ vi1 < 0 \/ rest.panic
               THEN [panic |-> TRUE, area |-> 0]
               ELSE [panic |-> FALSE,
                     area |-> Coord(positions, vi0, axes[1]) * Coord(positions, vi1, axes[2])
                              - Coord(positions, vi0, axes[2]) * Coord(positions, vi1, axes[1])
                              + rest.area]

(***************************************************************************)
(* One pass of the ear loop.  st.rem is remainingFace, st.arr the array    *)
(* of f.Corners that remainingFace is a slice of: removing a corner        *)
(* shifts the corners after it down inside that array and shortens the     *)
(* slice, so the array keeps its length and its tail.                      *)
(***************************************************************************)
Projected(positions, vi, axes) ==
    IF Skipped(positions, vi, axes) \/ vi < 0
    THEN <<0, 0>>
    ELSE <<Coord(positions, vi, axes[1]), Coord(positions, vi, axes[2])>>

CopyCornerVertexOnly(c) == FaceCorner(c.VertexIndex, Absent, Absent)

CopyCorner(c) == FaceCorner(c.VertexIndex, c.NormalIndex, c.TexCoordIndex)

RECURSIVE overlapScan(_, _, _, _, _, _, _)
overlapScan(rem, guessVert, otherVert, positions, axes, vx, vy) ==
    LET npolys == Len(rem)
    IN IF otherVert >= npolys
       THEN "clear"
       ELSE LET ovi == rem[((guessVert + otherVert) % npolys) + 1].VertexIndex
            IN IF Skipped(positions, ovi, axes)
               THEN overlapScan(rem, guessVert, otherVert + 1, positions, axes, vx, vy)
               ELSE IF ovi < 0
               THEN "panic"
               ELSE IF pnpoly(3, vx, vy, Coord(positions, ovi, axes[1]),
                              Coord(positions, ovi, axes[2]))
               THEN "overlap"
               ELSE overlapScan(rem, guessVert, otherVert + 1, positions, axes, vx, vy)

earStep(st, positions, axes, area) ==
    LET npolys == Len(st.rem)
        wrapped == st.guessVert >= npolys
        maxRounds == IF wrapped THEN st.maxRounds - 1 ELSE st.maxRounds
        guessVert == IF wrapped THEN st.guessVert - npolys ELSE st.guessVert
        ind == [k \in 1..3 |-> st.rem[((guessVert + k - 1) % npolys) + 1]]
        indPanic == \E k \in 1..3 : /\ ~Skipped(positions, ind[k].VertexIndex, axes)
                                    /\ ind[k].VertexIndex < 0
        pt == [k \in 1..3 |-> Projected(positions, ind[k].VertexIndex, axes)]
        vx == [k \in 1..3 |-> pt[k][1]]
        vy == [k \in 1..3 |-> pt[k][2]]
        cross == (vx[2] - vx[1]) * (vy[3] - vy[2]) - (vy[2] - vy[1]) * (vx[3] - vx[2])
        overlap == overlapScan(st.rem, guessVert, 3, positions, axes, vx, vy)
        removedVertIndex == (guessVert + 1) % npolys
        shifted == [j \in 1..(npolys - 1) |->
                       IF j - 1 < removedVertIndex THEN st.rem[j] ELSE st.rem[j + 1]]
    IN IF indPanic
       THEN [st EXCEPT !.guessVert = guessVert, !.maxRounds = maxRounds, !.panic = TRUE]
       ELSE IF cross * area < 0
       THEN [st EXCEPT !.guessVert = guessVert + 1, !.maxRounds = maxRounds]
       ELSE IF overlap = "panic"
       THEN [st EXCEPT !.guessVert = guessVert, !.maxRounds = maxRounds, !.panic = TRUE]
       ELSE IF overlap = "overlap"
       THEN [st EXCEPT !.guessVert = guessVert + 1, !.maxRounds = maxRounds]
       ELSE [rem |-> shifted,
             arr |-> shifted \o SubSeq(st.arr, npolys, Len(st.arr)),
             guessVert |-> guessVert,
             maxRounds |-> maxRounds,
             ret |-> Append(st.ret, <<CopyCorner(ind[1]), CopyCorner(ind[2]),
                                      CopyCorner(ind[3])>>),
             panic |-> FALSE]

Running(st) == ~st.panic /\ Len(st.rem) > 3 /\ st.maxRounds > 0

RECURSIVE earLoop(_, _, _, _)
earLoop(st, positions, axes, area) ==
    IF Running(st)
    THEN earLoop(earStep(st, positions, axes, area), positions, axes, area)
    ELSE st

NewEarState(corners) ==
    [rem |-> corners, arr |-> corners, guessVert |-> 0, maxRounds |-> 10, ret |-> <<>>,
     panic |-> FALSE]

lastTriangle(st) ==
    IF Len(st.rem) = 3
    THEN Append(st.ret, <<CopyCorner(st.rem[1]), CopyCorner(st.rem[2]),
                          CopyCorner(st.rem[3])>>)
    ELSE st.ret

(***************************************************************************)
(* Triangulate gives the returned triangles and f.Corners as the call      *)
(* leaves it, or the panic the call ends in.                               *)
(***************************************************************************)
Triangulate(f, positions) ==
    IF Len(f.Corners) = 3
    THEN [status |-> "ok", ret |-> <<f.Corners>>, Corners |-> f.Corners]
    ELSE LET ax == chooseAxes(f.Corners, positions, 0)
             ar == area2(f.Corners, positions, ax.axes, 0)
             st == earLoop(NewEarState(f.Corners), positions, ax.axes, ar.area)
         IN IF ax.panic \/ ar.panic
            THEN [status |-> "panic", ret |-> <<>>, Corners |-> f.Corners]
            ELSE IF st.panic
            THEN [status |-> "panic", ret |-> <<>>, Corners |-> st.arr]
            ELSE [status |-> "ok", ret |-> lastTriangle(st), Corners |-> st.arr]

(***************************************************************************)
(* TriangulateFace(k): the host triangulates the k-th face of the buffer   *)
(* against the buffer's positions.  The face is passed by pointer, so what *)
(* the call does to f.Corners is done to the buffer's face.                *)
(***************************************************************************)
TriangulateFace(k) ==
    /\ pc = "done" /\ err.err = NoError
    /\ k \in 1..Len(F)
    /\ \E r \in {Triangulate(F[k], V)} :
          /\ tris' = [called |-> TRUE, face |-> k, status |-> r.status, ret |-> r.ret]
          /\ F' = [F EXCEPT ![k].Corners = r.Corners]
    /\ UNCHANGED <<V, VN, VT, L, G, FaceGroup, MTL, activeMaterial, options, pc, i, err,
                   last, sub, out, written, ear>>

(***************************************************************************)
(* The same call followed through its ear loop.  StartTriangulate(k) is    *)
(* the call up to the loop: the early return for 3 corners, the choice of  *)
(* the axes and the area sum.  EarPass is one pass of the loop, done on    *)
(* the corners of the buffer's face, which remainingFace is a slice of.    *)
(* ReturnTriangles is the code after the loop.  A panic ends the call      *)
(* without a result.  ear.input keeps the corners the call was given.      *)
(***************************************************************************)
StartTriangulate(k) ==
    /\ pc = "done" /\ err.err = NoError
    /\ ear.status = "idle"
    /\ k \in 1..Len(F)
    /\ \E ax \in {chooseAxes(F[k].Corners, V, 0)} :
       \E ar \in {area2(F[k].Corners, V, ax.axes, 0)} :
          IF Len(F[k].Corners) = 3
          THEN /\ ear' = [ear EXCEPT !.status = "returned", !.face = k,
                                     !.input = F[k].Corners,
                                     !.st = NewEarState(F[k].Corners)]
               /\ tris' = [called |-> TRUE, face |-> k, status |-> "ok",
                           ret |-> <<F[k].Corners>>]
          ELSE IF ax.panic \/ ar.panic
          THEN /\ ear' = [ear EXCEPT !.status = "panic", !.face = k,
                                     !.input = F[k].Corners,
                                     !.st = NewEarState(F[k].Corners)]
               /\ tris' = [called |-> TRUE, face |-> k, status |-> "panic", ret |-> <<>>]
          ELSE /\ ear' = [status |-> "loop", face |-> k, input |-> F[k].Corners,
                          axes |-> ax.axes, area |-> ar.area,
                          st |-> NewEarState(F[k].Corners)]
               /\ tris' = tris
    /\ UNCHANGED <<V, VN, VT, F, L, G, FaceGroup, MTL, activeMaterial, options, pc, i, err,
                   last, sub, out, written>>

EarPass ==
    /\ ear.status = "loop"
    /\ Running(ear.st)
    /\ \E st \in {earStep(ear.st, V, ear.axes, ear.area)} :
          /\ ear' = [ear EXCEPT !.st = st,
                                !.status = IF st.panic THEN "panic" ELSE "loop"]
          /\ F' = [F EXCEPT ![ear.face].Corners = st.arr]
          /\ tris' = IF st.panic
                     THEN [called |-> TRUE, face |-> ear.face, status |-> "panic",
                           ret |-> <<>>]
                     ELSE tris
    /\ UNCHANGED <<V, VN, VT, L, G, FaceGroup, MTL, activeMaterial, options, pc, i, err,
                   last, sub, out, written>>

ReturnTriangles ==
    /\ ear.status = "loop"
    /\ ~Running(ear.st)
    /\ ear' = [ear EXCEPT !.status = "returned"]
    /\ tris' = [called |-> TRUE, face |-> ear.face, status |-> "ok",
                ret |-> lastTriangle(ear.st)]
    /\ UNCHANGED <<V, VN, VT, F, L, G, FaceGroup, MTL, activeMaterial, options, pc, i, err,
                   last, sub, out, written>>

(***************************************************************************)
(* SpecTriangulate: Triangulate on the buffer Read leaves after v lines    *)
(* and one f line whose corners are the vertices of a convex polygon:      *)
(* every polygon in convex position on a 3 by 3 grid that lies off the     *)
(* origin, of up to MaxPolygon corners, in both windings and from          *)
(* every starting corner, laid in one of five planes, with up to MaxPad    *)
(* unreferenced positions before and after its positions in V, its         *)
(* corners running up or down the position array.  Triangulate may be      *)
(* called again on the face it has been called on.                         *)
(***************************************************************************)
MaxPolygon == 5
MaxPad == 1

GridPoints == {0, 1, 2} \X {1, 2, 3}

Planes == {"xy", "yz", "xz", "xyz", "xzx"}

Cross2(a, b, c) == (b[1] - a[1]) * (c[2] - a[2]) - (b[2] - a[2]) * (c[1] - a[1])

Convex2(p, n) ==
    \E sgn \in {-1, 1} :
       \A j \in 1..n : \A k \in 1..n :
          (k # j /\ k # Succ1(j, n)) => sgn * Cross2(p[j], p[Succ1(j, n)], p[k]) > 0

ConvexPolygons(n) == {p \in [1..n -> GridPoints] : Convex2(p, n)}

Embed(pt, plane) ==
    CASE plane = "xy" -> <<pt[1], pt[2], 0>>
      [] plane = "yz" -> <<0, pt[1], pt[2]>>
      [] plane = "xz" -> <<pt[1], 0, pt[2]>>
      [] plane = "xyz" -> <<pt[1], pt[2], pt[1] + pt[2]>>
      [] plane = "xzx" -> <<pt[1], pt[2], pt[1]>>

PolygonRead(p, n, plane, pre, post, down) ==
    LET index(j) == IF down THEN pre + n - j ELSE pre + j - 1
        corner(m) == IF down THEN n - (m - pre) + 1 ELSE m - pre
    IN /\ V = [m \in 1..(pre + n + post) |->
                 IF m <= pre \/ m > pre + n THEN <<0, 0, 0>> ELSE Embed(p[corner(m)], plane)]
       /\ VN = <<>> /\ VT = <<>> /\ L = <<>>
       /\ F = <<Face([j \in 1..n |-> FaceCorner(index(j), Absent, Absent)], "")>>
       /\ G = <<Group("default group", 0, 1)>>
       /\ FaceGroup = <<FaceGroupRec(0, 1)>>
       /\ MTL = "" /\ activeMaterial = ""
       /\ options = [DiscardDegeneratedFaces |-> FALSE]
       /\ pc = "done"
       /\ i = pre + n + post + 1
       /\ err = lineError(0, NoLine, NoError)
       /\ last = Line("f", [j \in 1..n |-> VertexTok(index(j) + 1)])

InitTriangulate ==
    /\ \E n \in MinCorners..MaxPolygon : \E p \in ConvexPolygons(n) :
          \E plane \in Planes : \E pre \in 0..MaxPad : \E post \in 0..MaxPad :
             \E down \in BOOLEAN : PolygonRead(p, n, plane, pre, post, down)
    /\ NoResults

NextTriangulate == \E k \in 1..Len(F) : TriangulateFace(k)

SpecTriangulate == InitTriangulate /\ [][NextTriangulate]_vars

TriangulateStep == tris'.called /\ (tris' # tris \/ F' # F)

Minus(a, b) == <<a[1] - b[1], a[2] - b[2], a[3] - b[3]>>

Cross3(a, b) ==
    <<a[2] * b[3] - a[3] * b[2], a[3] * b[1] - a[1] * b[3], a[1] * b[2] - a[2] * b[1]>>

Dot3(a, b) == a[1] * b[1] + a[2] * b[2] + a[3] * b[3]

RECURSIVE Sum(_)
Sum(seq) == IF seq = <<>> THEN 0 ELSE Head(seq) + Sum(Tail(seq))

ValidVertices(corners) ==
    \A j \in 1..Len(corners) : InSlice(corners[j].VertexIndex, V)

Points(corners) == [j \in 1..Len(corners) |-> V[corners[j].VertexIndex + 1]]

ConvexPlanar(pts) ==
    LET n == Len(pts)
        normal == Cross3(Minus(pts[2], pts[1]), Minus(pts[3], pts[2]))
    IN /\ normal # <<0, 0, 0>>
       /\ \A j \in 1..n : \A k \in 1..n :
             (k # j /\ k # Succ1(j, n)) =>
                LET c == Cross3(Minus(pts[Succ1(j, n)], pts[j]), Minus(pts[k], pts[j]))
                IN Cross3(c, normal) = <<0, 0, 0>> /\ Dot3(c, normal) > 0

PolygonArea2(pts, axis) ==
    Abs(Sum([j \in 1..Len(pts) |-> Cross3(pts[j], pts[Succ1(j, Len(pts))])[axis]]))

TrianglesArea2(triangles, axis) ==
    Sum([t \in 1..Len(triangles) |->
            LET pts == Points(triangles[t])
            IN Abs(Cross3(Minus(pts[2], pts[1]), Minus(pts[3], pts[1]))[axis])])

(***************************************************************************)
(* C15: Triangulate of a face whose N corners are the vertices of a convex *)
(* planar polygon returns N-2 triangles, and on each coordinate plane the  *)
(* areas of the projected triangles add up to the area of the projected    *)
(* polygon.                                                                *)
(***************************************************************************)
C15_AsStated ==
    [][TriangulateStep =>
          LET corners == F[tris'.face].Corners
          IN (ValidVertices(corners) /\ ConvexPlanar(Points(corners))) =>
                /\ tris'.status = "ok"
                /\ Len(tris'.ret) = Len(corners) - 2
                /\ \A t \in 1..Len(tris'.ret) : ValidVertices(tris'.ret[t])
                /\ \A axis \in 1..3 :
                      TrianglesArea2(tris'.ret, axis) = PolygonArea2(Points(corners), axis)]_vars

(***************************************************************************)
(* C16: Triangulate leaves the corner sequence of the face and the         *)
(* position array as they were before the call.                            *)
(***************************************************************************)
C16_AsStated == [][TriangulateStep => (F' = F /\ V' = V)]_vars

(***************************************************************************)
(* ObjBuffer.Write, as the lines it writes.  The two header lines are      *)
(* comments.  A number is written as the literal that parses back to it,   *)
(* a name as the text after the keyword; a line is trimmed when it is      *)
(* read, so the g line of a group with the empty name has no field.        *)
(***************************************************************************)
writeVectors(kw, vectors) ==
    [k \in 1..Len(vectors) |->
        Line(kw, [c \in 1..Len(vectors[k]) |-> Num(vectors[k][c])])]

writeCorner(c) ==
    IF c.NormalIndex # -1
    THEN IF c.TexCoordIndex # -1
         THEN VertexTexNormalTok(c.VertexIndex + 1, c.TexCoordIndex + 1, c.NormalIndex + 1)
         ELSE VertexNormalTok(c.VertexIndex + 1, c.NormalIndex + 1)
    ELSE IF c.TexCoordIndex # -1
         THEN VertexTexTok(c.VertexIndex + 1, c.TexCoordIndex + 1)
         ELSE VertexTok(c.VertexIndex + 1)

writeFace(f) == Line("f", [j \in 1..Len(f.Corners) |-> writeCorner(f.Corners[j])])

NameFields(name) == IF name = "" THEN <<>> ELSE <<Word(name)>>

writeGroup(b, g) ==
    <<Line("g", NameFields(g.Name))>>
    \o [k \in 1..g.FaceCount |-> writeFace(b.F[g.FirstFaceIndex + k])]

RECURSIVE writeGroups(_, _)
writeGroups(b, groups) ==
    IF groups = <<>>
    THEN <<>>
    ELSE writeGroup(b, Head(groups)) \o writeGroups(b, Tail(groups))

Write(b) ==
    <<CommentLine, CommentLine>>
    \o (IF b.MTL # "" THEN <<Line("mtllib", NameFields(b.MTL))>> ELSE <<>>)
    \o writeVectors("v", b.V)
    \o writeVectors("vn", b.VN)
    \o writeVectors("vt", b.VT)
    \o writeGroups(b, b.G)

(***************************************************************************)
(* WriteAndReopen: the host writes the buffer of a successful Read and     *)
(* hands the output to a fresh reader; from here on the reader of the      *)
(* state is that fresh reader, and written keeps the buffer written.       *)
(* Reread and RereadEnd are Read of the fresh reader on the output.        *)
(***************************************************************************)
WriteAndReopen ==
    /\ pc = "done" /\ err.err = NoError
    /\ ~written.set
    /\ \E b \in {ObjBuffer(V, VN, VT, F, L, G, FaceGroup, MTL, activeMaterial)} :
          /\ out' = Write(b)
          /\ written' = [set |-> TRUE, buffer |-> b]
    /\ V' = <<>> /\ VN' = <<>> /\ VT' = <<>>
    /\ F' = <<>> /\ L' = <<>> /\ G' = <<>> /\ FaceGroup' = <<>>
    /\ MTL' = "" /\ activeMaterial' = ""
    /\ options' = [DiscardDegeneratedFaces |-> FALSE]
    /\ pc' = "new" /\ i' = 0 /\ err' = NoLineError /\ last' = NoLine
    /\ UNCHANGED <<sub, tris, ear>>

Reread ==
    /\ written.set
    /\ pc \in {"new", "reading"}
    /\ i < Len(out)
    /\ ReadLine(out[i + 1])

RereadEnd ==
    /\ written.set
    /\ pc \in {"new", "reading"}
    /\ i = Len(out)
    /\ ReadEnd(NoError)

(***************************************************************************)
(* SpecRoundTrip: Read of up to MaxRoundTripLines lines, Write of the      *)
(* buffer, Read of the output by a fresh reader.                           *)
(***************************************************************************)
MaxRoundTripLines == 4

RoundTripLines ==
    { VertexLine, NormalLine, TexCoordLine,
      Line("v", <<Num(2), Num(0), Num(0)>>),
      Line("f", <<VertexTok(1), VertexTok(1), VertexTok(1)>>),
      Line("f", <<VertexTok(-2), VertexTok(-2), VertexTok(-2)>>),
      Line("f", <<VertexTexTok(1, 1), VertexTexTok(1, 1), VertexTexTok(1, 1)>>),
      Line("f", <<VertexNormalTok(1, 1), VertexNormalTok(1, 1), VertexNormalTok(1, 1)>>),
      Line("f", <<VertexTexNormalTok(1, 1, 1), VertexTexNormalTok(1, 1, 1),
                  VertexTexNormalTok(1, 1, 1)>>),
      Line("g", <<Word("A")>>), Line("g", <<>>),
      Line("mtllib", <<Word("a")>>),
      Line("usemtl", <<Word("m")>>) }

ReadSource ==
    /\ ~written.set
    /\ pc \in {"new", "reading"}
    /\ i < MaxRoundTripLines
    /\ \E line \in RoundTripLines : ReadLine(line)

FinishSource == ~written.set /\ ReadEnd(NoError)

NextRoundTrip == ReadSource \/ FinishSource \/ WriteAndReopen \/ Reread \/ RereadEnd

SpecRoundTrip == Init /\ [][NextRoundTrip]_vars

GroupSummary(groups) == [k \in 1..Len(groups) |-> <<groups[k].Name, groups[k].FaceCount>>]

(***************************************************************************)
(* C20: when the fresh reader has read what Write wrote of the buffer of a *)
(* successful Read, its Read has succeeded and its V, VN and VT are the    *)
(* written ones, and its groups have the names and face counts of the      *)
(* written groups, in the same order.                                      *)
(***************************************************************************)
C20_AsStated ==
    (written.set /\ pc \in {"done", "failed"}) =>
        /\ pc = "done" /\ err.err = NoError
        /\ V = written.buffer.V
        /\ VN = written.buffer.VN
        /\ VT = written.buffer.VT
        /\ GroupSummary(G) = GroupSummary(written.buffer.G)

(***************************************************************************)
(* Vocabulary for the written face lines.                                  *)
(***************************************************************************)
FaceLinesOf(lines) == SelectSeq(lines, LAMBDA ln : ln.kw = "f")

RECURSIVE GroupedFaces(_, _)
GroupedFaces(b, groups) ==
    IF groups = <<>>
    THEN <<>>
    ELSE SubSeq(b.F, Head(groups).FirstFaceIndex + 1,
                Head(groups).FirstFaceIndex + Head(groups).FaceCount)
         \o GroupedFaces(b, Tail(groups))

StatedToken(c) ==
    IF c.TexCoordIndex # Absent /\ c.NormalIndex # Absent
    THEN <<IntPart(c.VertexIndex + 1), IntPart(c.TexCoordIndex + 1),
           IntPart(c.NormalIndex + 1)>>
    ELSE IF c.NormalIndex # Absent
    THEN <<IntPart(c.VertexIndex + 1), EmptyPart, IntPart(c.NormalIndex + 1)>>
    ELSE IF c.TexCoordIndex # Absent
    THEN <<IntPart(c.VertexIndex + 1), IntPart(c.TexCoordIndex + 1)>>
    ELSE <<IntPart(c.VertexIndex + 1)>>

ParsedBack(token, b) == resolveCorner(token, Len(b.V), Len(b.VN), Len(b.VT))

(***************************************************************************)
(* C21: the f lines of what Write wrote are, group after group, one line   *)
(* per face of the group's range; each corner token has the grammar the    *)
(* present indices call for, with every index written as the stored index  *)
(* plus 1; and a reader holding the written V, VN and VT parses each       *)
(* written token back to the stored corner.                                *)
(***************************************************************************)
C21_AsStated ==
    written.set =>
        LET b == written.buffer
            faces == GroupedFaces(b, b.G)
            flines == FaceLinesOf(out)
        IN /\ Len(flines) = Len(faces)
           /\ \A k \in 1..Len(faces) :
                 /\ Len(flines[k].fields) = Len(faces[k].Corners)
                 /\ \A j \in 1..Len(faces[k].Corners) :
                       /\ flines[k].fields[j] = StatedToken(faces[k].Corners[j])
                       /\ ParsedBack(flines[k].fields[j], b)
                            = [err |-> NoError, corner |-> faces[k].Corners[j]]

(***************************************************************************)
(* SpecRing: Triangulate, pass by pass, on the faces Read stores for one   *)
(* f line of up to MaxRing corners over the positions RingPoints, whose    *)
(* v lines are read in order.  The corners visit the positions in any      *)
(* order and any number of times, so the rings include collinear ones,     *)
(* ones with repeated corners, reflex and self-intersecting ones.  The     *)
(* f line may come after any number of the v lines; before the first one   *)
(* its vertex tokens are stored unresolved and unvalidated.  Every corner  *)
(* carries a texcoord and a normal index of its own, which are stored      *)
(* unvalidated because the input has no vt and vn lines.                   *)
(* SpecRingFair adds that a call that has started keeps running: the loop  *)
(* is sequential code of one goroutine.                                    *)
(***************************************************************************)
MaxRing == 4

RingPoints == << <<0, 0, 0>>, <<1, 0, 0>>, <<2, 0, 0>>, <<0, 1, 0>>, <<1, 1, 0>> >>

RingVertexLine(k) ==
    Line("v", <<Num(RingPoints[k][1]), Num(RingPoints[k][2]), Num(RingPoints[k][3])>>)

RingFace(t) ==
    Line("f", [j \in 1..Len(t) |-> VertexTexNormalTok(t[j], j, Len(t) + 1 - j)])

RingFaces ==
    {RingFace(t) : t \in UNION {[1..n -> 1..Len(RingPoints)] : n \in MinCorners..MaxRing}}
    \cup {RingFace([j \in 1..n |-> 0 - k]) : n \in MinCorners..MaxRing, k \in {1, 2}}

ReadRingVertex ==
    /\ pc \in {"new", "reading"}
    /\ Len(V) < Len(RingPoints)
    /\ ReadLine(RingVertexLine(Len(V) + 1))

ReadRingFace ==
    /\ pc \in {"new", "reading"}
    /\ F = <<>>
    /\ \E line \in RingFaces : ReadLine(line)

CallTriangulate == \E k \in 1..Len(F) : StartTriangulate(k)

NextRing ==
    ReadRingVertex \/ ReadRingFace \/ FinishRead \/ CallTriangulate \/ EarPass
    \/ ReturnTriangles

SpecRing == Init /\ [][NextRing]_vars

SpecRingFair == SpecRing /\ WF_vars(EarPass) /\ WF_vars(ReturnTriangles)

Advanced(before, after) ==
    /\ after.rem = before.rem
    /\ after.guessVert = (before.guessVert % Len(before.rem)) + 1

Removed(before, after) == Len(after.rem) = Len(before.rem) - 1

(***************************************************************************)
(* C22: a Triangulate call on a face of 3 or more corners returns: every   *)
(* pass of its loop removes one corner from the remaining ring or moves    *)
(* the scan start on by one, the call does not fail, the loop is left      *)
(* only with 3 corners remaining or with the 10 rounds used up, and a      *)
(* call that has entered the loop eventually returns.                      *)
(***************************************************************************)
C22_AsStated ==
    /\ [][(ear.status = "loop" /\ ear'.status = "loop")
             => (Removed(ear.st, ear'.st) \/ Advanced(ear.st, ear'.st))]_vars
    /\ [](ear.status # "panic")
    /\ []((ear.status = "returned" /\ Len(ear.input) > 3)
             => (Len(ear.st.rem) = 3 \/ ear.st.maxRounds = 0))
    /\ ((ear.status = "loop") ~> (ear.status = "returned"))

(***************************************************************************)
(* C23: when a Triangulate call on a face of N corners has returned, the   *)
(* list it returned has at most N-2 triangles, every triangle has exactly  *)
(* 3 corners, and every one of them is, with its vertex, normal and        *)
(* texcoord index together, a corner of the face the call was given.       *)
(***************************************************************************)
C23_TrianglesFromCorners ==
    ear.status = "returned" =>
        /\ tris.status = "ok"
        /\ Len(tris.ret) <= Len(ear.input) - 2
        /\ \A t \in 1..Len(tris.ret) :
              /\ Len(tris.ret[t]) = 3
              /\ \A c \in 1..3 : \E j \in 1..Len(ear.input) : tris.ret[t][c] = ear.input[j]

C23_Witness ==
    /\ ear.status = "returned"
    /\ Len(ear.input) = 4
    /\ Len(tris.ret) = 2
    /\ \E j \in 1..4 : \E k \in 1..4 :
          /\ j # k
          /\ ear.input[j].VertexIndex = ear.input[k].VertexIndex
          /\ ear.input[j].NormalIndex # ear.input[k].NormalIndex
          /\ \E t \in 1..2 : \E c \in 1..3 : tris.ret[t][c] = ear.input[k]

(***************************************************************************)
(* A valid face line, written from the file format: 3 or more corner       *)
(* tokens in one of the four grammars, no index 0, and every index into a  *)
(* non-empty array within its length, counted from the front or, when      *)
(* negative, from the back.                                                *)
(***************************************************************************)
ValidIndex(k, count) == k # 0 /\ (count > 0 => (k <= count /\ k >= 0 - count))

ValidField(field, nV, nVN, nVT) ==
    /\ WellFormed(field)
    /\ ValidIndex(VertexOf(field), nV)
    /\ HasTexCoord(field) => ValidIndex(TexCoordOf(field), nVT)
    /\ HasNormal(field) => ValidIndex(NormalOf(field), nVN)

ValidLine(fields, nV, nVN, nVT) ==
    /\ Len(fields) >= 3
    /\ \A j \in 1..Len(fields) : ValidField(fields[j], nV, nVN, nVT)

ResolvedVertices(fields, nV) ==
    [j \in 1..Len(fields) |-> Denoted(VertexOf(fields[j]), nV)]

Repeats(indices) ==
    \E a, b \in 1..Len(indices) : a # b /\ indices[a] = indices[b]

MaxCaseLines == 3

LowerCase(line) == [line EXCEPT !.upper = FALSE]

UpperCase(line) == [line EXCEPT !.upper = TRUE]

LowerLines ==
    { VertexLine, NormalLine, TexCoordLine,
      Line("f", <<VertexTok(1), VertexTok(2), VertexTok(3)>>),
      Line("l", <<Num(1), Num(2)>>),
      Line("g", <<Word("A")>>),
      Line("mtllib", <<Word("a")>>),
      Line("usemtl", <<Word("m")>>),
      Line("o", <<Word("x")>>) }

CaseLines == LowerLines \cup {UpperCase(line) : line \in LowerLines}

ReadCase ==
    /\ pc \in {"new", "reading"}
    /\ i < MaxCaseLines
    /\ \E line \in CaseLines : ReadLine(line)

NextCase == ReadCase \/ FinishRead

SpecCase == Init /\ [][NextCase]_vars

BufferOf(step) ==
    <<step.V, step.VN, step.VT, step.F, step.L, step.G, step.FaceGroup, step.MTL,
      step.activeMaterial>>

(***************************************************************************)
(* C25: a line whose keyword is written in upper case does to the buffer   *)
(* what the same line with the lower-case keyword does, and fails only if  *)
(* that line fails.                                                        *)
(***************************************************************************)
C25_AsStated ==
    [][(LineStep /\ last'.upper)
         => LET lower == dispatch(LowerCase(last'))
            IN /\ buffer' = BufferOf(lower)
               /\ (pc' = "failed") = (lower.err # NoError)]_vars

Malformed(fields) == \E j \in 1..Len(fields) : ~WellFormed(fields[j])

AllVertexTexCoord(fields) ==
    /\ Len(fields) >= 3
    /\ \A j \in 1..Len(fields) :
          Len(fields[j]) = 2 /\ IsInt(fields[j][1]) /\ IsInt(fields[j][2])

(***************************************************************************)
(* C26: a face line with a malformed corner token, and a face line whose   *)
(* corners are all of the form vertex/texcoord, is rejected with an error  *)
(* and no face is appended.                                                *)
(***************************************************************************)
C26_AsStated ==
    [][(FaceStep /\ (Malformed(last'.fields) \/ AllVertexTexCoord(last'.fields)))
         => Rejected]_vars

AbsentOrIn(k, slice) == k = Absent \/ InSlice(k, slice)

(***************************************************************************)
(* C27: buildBuffers on a group whose face range has a corner without a    *)
(* normal (and otherwise valid indices) returns; the copy of such a corner *)
(* has no normal either, and the VN of the result has one entry per        *)
(* distinct normal index that is present in the range.                     *)
(***************************************************************************)
C27_AsStated ==
    [][BuildStep =>
          LET faces == RangeFaces(G[sub'.group])
              corners == Flatten(faces)
              b == sub'.buffer
          IN (/\ \A j \in 1..Len(corners) :
                    /\ InSlice(corners[j].VertexIndex, V)
                    /\ AbsentOrIn(corners[j].NormalIndex, VN)
              /\ \E j \in 1..Len(corners) : corners[j].NormalIndex = Absent)
             => /\ sub'.status = "ok"
                /\ Len(b.F) = Len(faces)
                /\ \A k \in 1..Len(faces) : \A j \in 1..Len(faces[k].Corners) :
                      faces[k].Corners[j].NormalIndex = Absent
                         => b.F[k].Corners[j].NormalIndex = Absent
                /\ Len(b.VN) = Cardinality(Elements(NormalRefs(corners)) \ {Absent})]_vars

(***************************************************************************)
(* C28: in a buffer buildBuffers has returned, every corner of every face  *)
(* has a vertex index into the buffer's V, and a normal and a texcoord     *)
(* index that are absent or index the buffer's VN and VT.                  *)
(***************************************************************************)
C28_AsStated ==
    sub.status = "ok" =>
        \A k \in 1..Len(sub.buffer.F) : \A j \in 1..Len(sub.buffer.F[k].Corners) :
           LET c == sub.buffer.F[k].Corners[j]
           IN /\ InSlice(c.VertexIndex, sub.buffer.V)
              /\ AbsentOrIn(c.NormalIndex, sub.buffer.VN)
              /\ AbsentOrIn(c.TexCoordIndex, sub.buffer.VT)

GroupsOf(k) == {a \in 1..Len(G) : k \in FaceRange(G[a])}

(***************************************************************************)
(* C29: the first g line of an input puts all faces read before it into    *)
(* the group "default group", which stays the first group as it is; and    *)
(* after a successful Read every face index belongs to exactly one group   *)
(* of G, the face counts of the groups add up to len(F), and the f lines   *)
(* Write emits are the faces of F, each once, in order.                    *)
(***************************************************************************)
C29_GroupsCoverFaces ==
    /\ [][(LineStep /\ last'.kw = "g" /\ pc' = "reading" /\ G = <<>>)
             => G'[1] = Group("default group", 0, Len(F))]_vars
    /\ [][(G # <<>> /\ pc' \in {"reading", "done"}) => (G' # <<>> /\ G'[1] = G[1])]_vars
    /\ [](Succeeded =>
            /\ \A k \in 0..(Len(F) - 1) : Cardinality(GroupsOf(k)) = 1
            /\ Sum([a \in 1..Len(G) |-> G[a].FaceCount]) = Len(F)
            /\ FaceLinesOf(Write(ObjBuffer(V, VN, VT, F, L, G, FaceGroup, MTL,
                                           activeMaterial)))
                  = [k \in 1..Len(F) |-> writeFace(F[k])])

C29_Witness ==
    /\ Succeeded
    /\ Len(F) = 3
    /\ F[1] # F[2]
    /\ G = <<Group("default group", 0, 1), Group("A", 1, 1), Group("B", 2, 1)>>

(***************************************************************************)
(* C30: a line on which Read returns a line error leaves V, VN, VT, F, L,  *)
(* G, FaceGroup, MTL and the active material as they were before it.       *)
(***************************************************************************)
C30_AsStated == [][(LineStep /\ pc' = "failed") => buffer' = buffer]_vars

====
